---- MODULE Spec2Model ----
(***************************************************************************)
(* dugite-extra: branch checkout with progress reporting                   *)
(* (src/src/command/checkout.ts) and the repository test helpers           *)
(* (src/src/command/test-helper.ts).                                       *)
(*                                                                         *)
(* The progress parser, the stream adapter (progressProcessCallback) and   *)
(* the git execution layer live in ../progress and ../core/git, which are  *)
(* not among the source files; they are modelled from the specification.   *)
(***************************************************************************)
EXTENDS Integers, Sequences, FiniteSets, TLC

VARIABLES
    \* ---- progress parser exercised alone
    pText,        \* the text fed to the parser (a sequence of characters)
    pSplit,       \* the offset at which the text is split into two chunks
    pPolicy,      \* TRUE: a non-matching line yields an Unknown record
    pStage,       \* "init" | "whole" | "first" | "both"
    pWhole,       \* the records of feeding the text as one chunk
    pFirst,       \* the records of the first of two chunks
    pBuf,         \* the parser's buffer after the first of two chunks
    pTwice,       \* the records of the two chunks, in order
    \* ---- checkoutBranch operations (one entry per operation)
    active,       \* the operations that take part
    name,         \* the branch name passed to checkoutBranch
    hasCb,        \* whether a progressCallback was passed
    failOn,       \* the callback raises on its failOn-th invocation (0: never)
    procExit,     \* the exit code the git process ends with
    policy,       \* TRUE: a non-matching line yields an Unknown record
    pc,           \* "idle" | "awaiting" | "resolved" | "rejected"
    rest,         \* the steps of checkoutBranch left to run after the await
    log,          \* what the operation did, in order: callback calls, the spawn
    args,         \* the arguments git was run with
    attached,     \* whether a process callback was attached to the process
    gitStatus,    \* "notIssued" | "running" | "exited"
    out,          \* the output the git process has still to write
    consumed,     \* the output the process wrote so far
    parserBuf,    \* the buffer of each parser instance
    stopped,      \* progress reporting of the operation has ceased
    surfaced,     \* a callback failure reached the caller
    exitCode,     \* the exit code git reported (-1: none yet)
    \* ---- initRepository
    irPath,       \* the path argument
    irAdd,        \* the add argument: "undefined" | "false" | "true"
    irCommit,     \* the commit argument: "undefined" | "false" | "true"
    irPc,         \* the git step to run next, or "returned" | "threw"
    irRan,        \* the git steps run so far, with their exit codes
    irResult,     \* the value returned
    \* ---- file helpers
    fs,           \* the file system: what is at each path
    fs0,          \* the file system before the call
    fhOp,         \* the helper called: "remove" | "add" | "modify" | "rename"
    fhFiles,      \* the list it is called with
    fhResult,     \* "pending" | "returned" | "threw"
    fhFailedAt,   \* the index of the entry the call threw at (0: none)
    fhRet         \* the list returned

parserVars == <<pText, pSplit, pPolicy, pStage, pWhole, pFirst, pBuf, pTwice>>

checkoutVars == <<active, name, hasCb, failOn, procExit, policy, pc, rest, log, args,
                  attached, gitStatus, out, consumed, parserBuf, stopped, surfaced,
                  exitCode>>

initVars == <<irPath, irAdd, irCommit, irPc, irRan, irResult>>

fileVars == <<fs, fs0, fhOp, fhFiles, fhResult, fhFailedAt, fhRet>>

vars == <<parserVars, checkoutVars, initVars, fileVars>>

----------------------------------------------------------------------------
(* Characters and numbers *)

NL == "\n"

Digits == <<"0", "1", "2", "3", "4", "5", "6", "7", "8", "9">>

DigitVal(c) == (CHOOSE i \in 1..Len(Digits) : Digits[i] = c) - 1

RECURSIVE ParseNat(_)
ParseNat(ds) ==
    IF ds = <<>> THEN 0
    ELSE ParseNat(SubSeq(ds, 1, Len(ds) - 1)) * 10 + DigitVal(ds[Len(ds)])

RECURSIVE Gcd(_, _)
Gcd(a, b) == IF b = 0 THEN a ELSE Gcd(b, a % b)

\* A number in [0,1] is kept exactly, as a fraction in lowest terms.
Ratio(n, d) == <<n \div Gcd(n, d), d \div Gcd(n, d)>>

Zero == Ratio(0, 1)

NaN == <<0, 0>>

\* The first index at or after i whose character is not in S (Len + 1 if none).
RECURSIVE SkipWhile(_, _, _)
SkipWhile(line, i, S) ==
    IF i > Len(line) THEN Len(line) + 1
    ELSE IF line[i] \in S THEN SkipWhile(line, i + 1, S)
    ELSE i

DigitSet == {Digits[i] : i \in 1..Len(Digits)}

\* The first index at or after i whose character is c (Len + 1 if none).
RECURSIVE IndexOf(_, _, _)
IndexOf(line, i, c) ==
    IF i > Len(line) THEN Len(line) + 1
    ELSE IF line[i] = c THEN i
    ELSE IndexOf(line, i + 1, c)

----------------------------------------------------------------------------
(* Progress parser: "<label>: <pct>%" or "<label>: <pct>% (<count>/<total>)" *)

NoMatch == [ok |-> FALSE, hasPair |-> FALSE, pct |-> 0, count |-> 0, total |-> 0]

MatchLine(line) ==
    LET colon == IndexOf(line, 1, ":")
        p0    == SkipWhile(line, colon + 1, {" "})
        p1    == SkipWhile(line, p0, DigitSet)
        c0    == p1 + 3
        c1    == SkipWhile(line, c0, DigitSet)
        t0    == c1 + 1
        t1    == SkipWhile(line, t0, DigitSet)
        head  == /\ colon >= 2
                 /\ colon <= Len(line)
                 /\ p0 > colon + 1
                 /\ p1 > p0
                 /\ p1 <= Len(line)
                 /\ line[p1] = "%"
        pct   == ParseNat(SubSeq(line, p0, p1 - 1))
    IN  IF ~head THEN NoMatch
        ELSE IF p1 = Len(line)
             THEN [ok |-> TRUE, hasPair |-> FALSE, pct |-> pct,
                   count |-> 0, total |-> 0]
        ELSE IF /\ p1 + 2 <= Len(line)
                /\ line[p1 + 1] = " "
                /\ line[p1 + 2] = "("
                /\ c1 > c0
                /\ c1 <= Len(line)
                /\ line[c1] = "/"
                /\ t1 > t0
                /\ t1 = Len(line)
                /\ line[t1] = ")"
             THEN [ok |-> TRUE, hasPair |-> TRUE, pct |-> pct,
                   count |-> ParseNat(SubSeq(line, c0, c1 - 1)),
                   total |-> ParseNat(SubSeq(line, t0, t1 - 1))]
        ELSE NoMatch

\* A mutant of Percent: the plain quotient, which is NaN for 0/0.
PercentUnguarded(m) ==
    IF m.hasPair
    THEN IF m.total = 0 THEN NaN ELSE Ratio(m.count, m.total)
    ELSE Ratio(m.pct, 100)

\* count/total when the pair is present, 0 for a zero total; otherwise the
\* explicit percent token.
Percent(m) ==
    IF m.hasPair
    THEN IF m.total = 0 THEN Zero ELSE Ratio(m.count, m.total)
    ELSE Ratio(m.pct, 100)

ProgressRecord(line, percent) ==
    [kind |-> "progress", details |-> [text |-> line], percent |-> percent]

UnknownRecord(line) ==
    [kind |-> "unknown", details |-> [text |-> line], percent |-> Zero]

\* The records of one complete line: none or one.
ParseLine(line, unk) ==
    LET m == MatchLine(line)
    IN  IF m.ok THEN <<ProgressRecord(line, Percent(m))>>
        ELSE IF unk /\ line # <<>> THEN <<UnknownRecord(line)>>
        ELSE <<>>

\* A mutant of Feed: no buffer is kept, every chunk is split into lines on
\* its own and its trailing piece is parsed at once.
RECURSIVE FeedUnbuffered(_, _, _)
FeedUnbuffered(buf, chunk, unk) ==
    LET nl == IndexOf(chunk, 1, NL)
    IN  IF chunk = <<>> THEN [records |-> <<>>, buf |-> <<>>]
        ELSE IF nl > Len(chunk)
             THEN [records |-> ParseLine(chunk, unk), buf |-> <<>>]
        ELSE LET more == FeedUnbuffered(<<>>, SubSeq(chunk, nl + 1, Len(chunk)), unk)
             IN  [records |-> ParseLine(SubSeq(chunk, 1, nl - 1), unk) \o more.records,
                  buf |-> <<>>]

\* One chunk: the buffered partial line is completed by the chunk, every
\* complete line is parsed in order, the incomplete trailing line is kept.
RECURSIVE Feed(_, _, _)
Feed(buf, chunk, unk) ==
    LET text == buf \o chunk
        nl   == IndexOf(text, 1, NL)
    IN  IF nl > Len(text) THEN [records |-> <<>>, buf |-> text]
        ELSE LET more == Feed(<<>>, SubSeq(text, nl + 1, Len(text)), unk)
             IN  [records |-> ParseLine(SubSeq(text, 1, nl - 1), unk) \o more.records,
                  buf |-> more.buf]

\* End of stream: the buffered partial line is parsed as it stands.
Flush(buf, unk) ==
    IF buf = <<>> THEN <<>> ELSE ParseLine(buf, unk)

----------------------------------------------------------------------------
(* Inputs *)

LineTen  == <<"C", ":", " ", "1", "0", "%", " ", "(", "1", "/", "1", "0", ")">>
LineFull == <<"C", ":", " ", "1", "0", "0", "%", " ", "(", "1", "0", "/", "1", "0", ")">>
LineHalf == <<"C", ":", " ", "5", "0", "%", " ", "(", "5", "/", "1", "0", ")">>
LineZero == <<"C", ":", " ", "0", "%", " ", "(", "0", "/", "0", ")">>
LineNone == <<"C", ":", " ", "7", "%", " ", "(", "3", "/", "0", ")">>
LinePct  == <<"R", ":", " ", " ", "3", "7", "%">>
LineOops == <<"C", ":", " ", "o", "o", "p", "s">>

ParserTexts ==
    { <<>>,
      LineHalf \o <<NL>>,
      LineTen \o <<NL>> \o LineFull \o <<NL>>,
      LineZero \o <<NL>>,
      LineNone \o <<NL>> \o LinePct \o <<NL>>,
      LineOops \o <<NL>> \o LineHalf \o <<NL>>,
      <<NL>> \o LinePct \o <<NL>>,
      LineHalf,
      LineTen \o <<NL>> \o LineZero }

----------------------------------------------------------------------------
(* The parser exercised alone *)

CheckoutInert ==
    /\ active = {}
    /\ name = <<>>
    /\ hasCb = <<>>
    /\ failOn = <<>>
    /\ procExit = <<>>
    /\ policy = FALSE
    /\ pc = <<>>
    /\ rest = <<>>
    /\ log = <<>>
    /\ args = <<>>
    /\ attached = <<>>
    /\ gitStatus = <<>>
    /\ out = <<>>
    /\ consumed = <<>>
    /\ parserBuf = <<>>
    /\ stopped = <<>>
    /\ surfaced = <<>>
    /\ exitCode = <<>>

InitRepoInert ==
    /\ irPath = ""
    /\ irAdd = "undefined"
    /\ irCommit = "undefined"
    /\ irPc = "returned"
    /\ irRan = <<>>
    /\ irResult = ""

FilesInert ==
    /\ fs = <<>>
    /\ fs0 = <<>>
    /\ fhOp = ""
    /\ fhFiles = <<>>
    /\ fhResult = "returned"
    /\ fhFailedAt = 0
    /\ fhRet = <<>>

InitParser ==
    /\ pText \in ParserTexts
    /\ pSplit \in 0..Len(pText)
    /\ pPolicy \in BOOLEAN
    /\ pStage = "init"
    /\ pWhole = <<>>
    /\ pFirst = <<>>
    /\ pBuf = <<>>
    /\ pTwice = <<>>
    /\ CheckoutInert
    /\ InitRepoInert
    /\ FilesInert

FeedWhole ==
    /\ pStage = "init"
    /\ pWhole' = Feed(<<>>, pText, pPolicy).records
    /\ pStage' = "whole"
    /\ UNCHANGED <<pText, pSplit, pPolicy, pFirst, pBuf, pTwice>>
    /\ UNCHANGED <<checkoutVars, initVars, fileVars>>

FeedFirst ==
    /\ pStage = "whole"
    /\ LET r == Feed(<<>>, SubSeq(pText, 1, pSplit), pPolicy)
       IN  /\ pFirst' = r.records
           /\ pBuf' = r.buf
    /\ pStage' = "first"
    /\ UNCHANGED <<pText, pSplit, pPolicy, pWhole, pTwice>>
    /\ UNCHANGED <<checkoutVars, initVars, fileVars>>

FeedSecond ==
    /\ pStage = "first"
    /\ pTwice' = pFirst \o Feed(pBuf, SubSeq(pText, pSplit + 1, Len(pText)), pPolicy).records
    /\ pStage' = "both"
    /\ UNCHANGED <<pText, pSplit, pPolicy, pWhole, pFirst, pBuf>>
    /\ UNCHANGED <<checkoutVars, initVars, fileVars>>

NextParser == FeedWhole \/ FeedFirst \/ FeedSecond

SpecParser == InitParser /\ [][NextParser]_vars

----------------------------------------------------------------------------
(* checkoutBranch *)

Ops == {1, 2}

NoDescription == <<"undefined">>

Title(nm) == <<"Checking out branch ", nm>>

\* The event of the "Initial progress" call.
InitialProgress(nm) ==
    [kind |-> "checkout", title |-> Title(nm), description |-> NoDescription,
     value |-> Zero, targetBranch |-> nm]

CallbackEntry(ev) == [type |-> "callback", event |-> ev]

SpawnEntry(as) == [type |-> "spawn", args |-> as]

IsCallback(e) == e.type = "callback"

\* The events the operation's callback was invoked with, in order.
Events(op) ==
    LET calls == SelectSeq(log[op], IsCallback)
    IN  [i \in 1..Len(calls) |-> calls[i].event]

NumCalls(lg) == Len(SelectSeq(lg, IsCallback))

\* A mutant of CheckoutArgs: the flag is passed whether or not a process
\* callback exists.
CheckoutArgsAlways(nm, processCallback) ==
    <<"checkout", "--progress", nm, "--">>

CheckoutArgs(nm, processCallback) ==
    IF processCallback
    THEN <<"checkout", "--progress", nm, "--">>
    ELSE <<"checkout", nm, "--">>

\* A mutant of InvokeHandler: every record is forwarded, whatever its kind.
InvokeHandlerAllKinds(rec, nm, invoked, failAt) ==
    [calls |-> <<[kind |-> "checkout", title |-> Title(nm),
                  description |-> rec.details.text, value |-> rec.percent,
                  targetBranch |-> nm]>>,
     threw |-> failAt = invoked + 1]

\* A mutant of InvokeHandler: a failure of the callback is caught and dropped.
InvokeHandlerSwallow(rec, nm, invoked, failAt) ==
    IF rec.kind = "progress"
    THEN [calls |-> <<[kind |-> "checkout", title |-> Title(nm),
                       description |-> rec.details.text, value |-> rec.percent,
                       targetBranch |-> nm]>>,
          threw |-> FALSE]
    ELSE [calls |-> <<>>, threw |-> FALSE]

\* The function handed to progressProcessCallback: a record of kind
\* 'progress' is passed on to the caller's callback, whose failure is not
\* caught; any other record is dropped. `invoked` counts the callback's
\* invocations so far.
InvokeHandler(rec, nm, invoked, failAt) ==
    IF rec.kind = "progress"
    THEN [calls |-> <<[kind |-> "checkout", title |-> Title(nm),
                       description |-> rec.details.text, value |-> rec.percent,
                       targetBranch |-> nm]>>,
          threw |-> failAt = invoked + 1]
    ELSE [calls |-> <<>>, threw |-> FALSE]

\* A mutant of ParserOf: one parser instance serves every operation.
ParserShared(op) == 1

\* Each call of checkoutBranch constructs its own CheckoutProgressParser.
ParserOf(op) == op

\* A mutant of CheckoutSteps: git is run before the initial progress event.
CheckoutStepsGitFirst(hasCallback) ==
    IF hasCallback THEN <<"adapter", "git", "initial">> ELSE <<"git">>

\* A mutant of CheckoutSteps: a closing event is emitted after git returned.
CheckoutStepsFinalEvent(hasCallback) ==
    IF hasCallback THEN <<"adapter", "initial", "git", "initial">> ELSE <<"git">>

\* What the body of checkoutBranch does, in order.
CheckoutSteps(hasCallback) ==
    IF hasCallback THEN <<"adapter", "initial", "git">> ELSE <<"git">>

\* The steps run one after the other until the function awaits git or the
\* callback raises. s: [log, adapter, args, attached, spawned, threw, rest].
RECURSIVE RunSteps(_, _, _, _)
RunSteps(steps, s, nm, failAt) ==
    IF steps = <<>> THEN [s EXCEPT !.rest = <<>>]
    ELSE IF Head(steps) = "adapter"
         THEN RunSteps(Tail(steps), [s EXCEPT !.adapter = TRUE], nm, failAt)
    ELSE IF Head(steps) = "initial"
         THEN LET s2 == [s EXCEPT !.log = Append(@, CallbackEntry(InitialProgress(nm)))]
              IN  IF failAt = NumCalls(s.log) + 1
                  THEN [s2 EXCEPT !.threw = TRUE, !.rest = <<>>]
                  ELSE RunSteps(Tail(steps), s2, nm, failAt)
    ELSE LET as == CheckoutArgs(nm, s.adapter)
         IN  [s EXCEPT !.args = as, !.attached = s.adapter, !.spawned = TRUE,
                       !.log = Append(@, SpawnEntry(as)), !.rest = Tail(steps)]

\* The adapter's data handler: the records of a chunk go to the handler in
\* order; a failure ends the delivery.
RECURSIVE Deliver(_, _, _, _)
Deliver(recs, lg, nm, failAt) ==
    IF recs = <<>> THEN [log |-> lg, threw |-> FALSE]
    ELSE LET h   == InvokeHandler(Head(recs), nm, NumCalls(lg), failAt)
             lg2 == lg \o [i \in 1..Len(h.calls) |-> CallbackEntry(h.calls[i])]
         IN  IF h.threw THEN [log |-> lg2, threw |-> TRUE]
             ELSE Deliver(Tail(recs), lg2, nm, failAt)

\* checkoutBranch up to its await.
CheckoutBranch(op) ==
    /\ op \in active
    /\ pc[op] = "idle"
    /\ LET s0 == [log |-> log[op], adapter |-> FALSE, args |-> <<>>,
                  attached |-> FALSE, spawned |-> FALSE, threw |-> FALSE,
                  rest |-> <<>>]
           s  == RunSteps(CheckoutSteps(hasCb[op]), s0, name[op], failOn[op])
       IN  /\ log' = [log EXCEPT ![op] = s.log]
           /\ rest' = [rest EXCEPT ![op] = s.rest]
           /\ args' = [args EXCEPT ![op] = s.args]
           /\ attached' = [attached EXCEPT ![op] = s.attached]
           /\ gitStatus' = [gitStatus EXCEPT ![op] =
                               IF s.spawned THEN "running" ELSE "notIssued"]
           /\ surfaced' = [surfaced EXCEPT ![op] = s.threw]
           /\ stopped' = [stopped EXCEPT ![op] = s.threw]
           /\ pc' = [pc EXCEPT ![op] = IF s.threw THEN "rejected" ELSE "awaiting"]
    /\ UNCHANGED <<active, name, hasCb, failOn, procExit, policy, out, consumed,
                   parserBuf, exitCode>>
    /\ UNCHANGED <<parserVars, initVars, fileVars>>

\* The process writes the next piece of its output, of any length.
Chunk(op) ==
    /\ op \in active
    /\ gitStatus[op] = "running"
    /\ out[op] # <<>>
    /\ \E k \in 1..Len(out[op]) :
         LET chunk == SubSeq(out[op], 1, k)
             r     == Feed(parserBuf[ParserOf(op)], chunk, policy)
             d     == Deliver(r.records, log[op], name[op], failOn[op])
         IN  /\ out' = [out EXCEPT ![op] = SubSeq(@, k + 1, Len(@))]
             /\ consumed' = [consumed EXCEPT ![op] = @ \o chunk]
             /\ IF attached[op] /\ ~stopped[op]
                THEN /\ parserBuf' = [parserBuf EXCEPT ![ParserOf(op)] = r.buf]
                     /\ log' = [log EXCEPT ![op] = d.log]
                     /\ stopped' = [stopped EXCEPT ![op] = d.threw]
                     /\ surfaced' = [surfaced EXCEPT ![op] = d.threw]
                ELSE UNCHANGED <<parserBuf, log, stopped, surfaced>>
    /\ UNCHANGED <<active, name, hasCb, failOn, procExit, policy, pc, rest, args,
                   attached, gitStatus, exitCode>>
    /\ UNCHANGED <<parserVars, initVars, fileVars>>

\* The process ends: its stream closes, the buffered line is flushed.
Close(op) ==
    /\ op \in active
    /\ gitStatus[op] = "running"
    /\ out[op] = <<>>
    /\ LET d == Deliver(Flush(parserBuf[ParserOf(op)], policy), log[op], name[op],
                        failOn[op])
       IN  IF attached[op] /\ ~stopped[op]
           THEN /\ parserBuf' = [parserBuf EXCEPT ![ParserOf(op)] = <<>>]
                /\ log' = [log EXCEPT ![op] = d.log]
                /\ stopped' = [stopped EXCEPT ![op] = d.threw]
                /\ surfaced' = [surfaced EXCEPT ![op] = d.threw]
           ELSE UNCHANGED <<parserBuf, log, stopped, surfaced>>
    /\ gitStatus' = [gitStatus EXCEPT ![op] = "exited"]
    /\ exitCode' = [exitCode EXCEPT ![op] = procExit[op]]
    /\ UNCHANGED <<active, name, hasCb, failOn, procExit, policy, pc, rest, args,
                   attached, out, consumed>>
    /\ UNCHANGED <<parserVars, initVars, fileVars>>

\* git's promise settles and checkoutBranch runs to its end.
Return(op) ==
    /\ op \in active
    /\ pc[op] = "awaiting"
    /\ gitStatus[op] = "exited"
    /\ LET s0 == [log |-> log[op], adapter |-> attached[op], args |-> args[op],
                  attached |-> attached[op], spawned |-> TRUE, threw |-> FALSE,
                  rest |-> <<>>]
           s  == IF exitCode[op] = 0
                 THEN RunSteps(rest[op], s0, name[op], failOn[op])
                 ELSE s0
       IN  /\ log' = [log EXCEPT ![op] = s.log]
           /\ surfaced' = [surfaced EXCEPT ![op] = @ \/ s.threw]
           /\ pc' = [pc EXCEPT ![op] =
                        IF exitCode[op] = 0 /\ ~s.threw THEN "resolved" ELSE "rejected"]
    /\ rest' = [rest EXCEPT ![op] = <<>>]
    /\ UNCHANGED <<active, name, hasCb, failOn, procExit, policy, args, attached,
                   gitStatus, out, consumed, parserBuf, stopped, exitCode>>
    /\ UNCHANGED <<parserVars, initVars, fileVars>>

NextCheckout == \E op \in Ops : CheckoutBranch(op) \/ Chunk(op) \/ Close(op) \/ Return(op)

Branches == {"main", "dev"}

Texts ==
    { <<>>,
      LineTen \o <<NL>> \o LineFull \o <<NL>>,
      LineOops \o <<NL>> \o LineHalf \o <<NL>>,
      LineZero \o <<NL>> \o LinePct,
      <<NL>> \o LineOops }

ShortTexts ==
    { LinePct \o <<NL>>,
      LineZero \o <<NL>> \o <<"x">> }

MaxFail == 3

ParserInert ==
    /\ pText = <<>>
    /\ pSplit = 0
    /\ pPolicy = FALSE
    /\ pStage = "init"
    /\ pWhole = <<>>
    /\ pFirst = <<>>
    /\ pBuf = <<>>
    /\ pTwice = <<>>

CheckoutStart ==
    /\ policy \in BOOLEAN
    /\ pc = [op \in Ops |-> "idle"]
    /\ rest = [op \in Ops |-> <<>>]
    /\ log = [op \in Ops |-> <<>>]
    /\ args = [op \in Ops |-> <<>>]
    /\ attached = [op \in Ops |-> FALSE]
    /\ gitStatus = [op \in Ops |-> "notIssued"]
    /\ consumed = [op \in Ops |-> <<>>]
    /\ parserBuf = [op \in Ops |-> <<>>]
    /\ stopped = [op \in Ops |-> FALSE]
    /\ surfaced = [op \in Ops |-> FALSE]
    /\ exitCode = [op \in Ops |-> -1]

\* One operation, any input.
InitCheckout ==
    /\ active = {1}
    /\ name \in {[op \in Ops |-> b] : b \in Branches}
    /\ hasCb \in {[op \in Ops |-> b] : b \in BOOLEAN}
    /\ failOn \in {[op \in Ops |-> n] : n \in 0..MaxFail}
    /\ procExit \in {[op \in Ops |-> c] : c \in {0, 1}}
    /\ out \in {[op \in Ops |-> t] : t \in Texts}
    /\ CheckoutStart
    /\ ParserInert
    /\ InitRepoInert
    /\ FilesInert

\* Two operations at once.
InitConcurrent ==
    /\ active = Ops
    /\ name \in [Ops -> Branches]
    /\ hasCb \in [Ops -> BOOLEAN]
    /\ failOn \in [Ops -> {0, 2}]
    /\ procExit = [op \in Ops |-> op - 1]
    /\ out \in [Ops -> ShortTexts]
    /\ CheckoutStart
    /\ ParserInert
    /\ InitRepoInert
    /\ FilesInert

SpecCheckout == InitCheckout /\ [][NextCheckout]_vars

SpecConcurrent == InitConcurrent /\ [][NextCheckout]_vars

----------------------------------------------------------------------------
(* initRepository *)

Truthy(v) == v = "true"

RepoPaths == {"/tmp/a", "/tmp/b", "/tmp/c"}

OptionalBool == {"undefined", "false", "true"}

ExitCodes == {0, 1, 128}

\* After the user.name step: `if (add)`.
AfterName(add) == IF Truthy(add) THEN "add" ELSE "returned"

\* After the add step: `if (commit)`, nested in `if (add)`.
AfterAdd(commit) == IF Truthy(commit) THEN "commit" ELSE "returned"

\* One awaited git call of initRepository: a non-zero exit code throws,
\* otherwise the function goes on to `next`; reaching the end returns path.
GitStep(step, next) ==
    /\ irPc = step
    /\ \E code \in ExitCodes :
         /\ irRan' = Append(irRan, [step |-> step, exitCode |-> code])
         /\ irPc' = IF code # 0 THEN "threw" ELSE next
         /\ irResult' = IF code = 0 /\ next = "returned" THEN irPath ELSE irResult
    /\ UNCHANGED <<irPath, irAdd, irCommit>>
    /\ UNCHANGED <<parserVars, checkoutVars, fileVars>>

IrInit == GitStep("init", "email")

IrEmail == GitStep("email", "name")

IrName == GitStep("name", AfterName(irAdd))

IrAdd == GitStep("add", AfterAdd(irCommit))

IrCommit == GitStep("commit", "returned")

NextInitRepo == IrInit \/ IrEmail \/ IrName \/ IrAdd \/ IrCommit

InitInitRepo ==
    /\ irPath \in RepoPaths
    /\ irAdd \in OptionalBool
    /\ irCommit \in OptionalBool
    /\ irPc = "init"
    /\ irRan = <<>>
    /\ irResult = ""
    /\ ParserInert
    /\ CheckoutInert
    /\ FilesInert

SpecInitRepo == InitInitRepo /\ [][NextInitRepo]_vars

----------------------------------------------------------------------------
(* remove, add, modify, rename *)

FilePaths == {"A.txt", "B.txt", "folder"}

NoData == "<undefined>"

Absent == [kind |-> "none", data |-> ""]

Directory == [kind |-> "dir", data |-> ""]

File(data) == [kind |-> "file", data |-> data]

ExistsSync(f, p) == f[p].kind # "none"

IsFile(f, p) == f[p].kind = "file"

\* unlinkSync of a regular file.
UnlinkSync(f, p) == [f EXCEPT ![p] = Absent]

\* writeFileSync to a path that is absent or a regular file.
WriteFileSync(f, p, data) == [f EXCEPT ![p] = File(data)]

\* renameSync of a regular file to an absent path.
RenameSync(f, old, new) == [f EXCEPT ![old] = Absent, ![new] = f[old]]

Thrown(f, i) == [fs |-> f, threw |-> TRUE, at |-> i]

Done(f) == [fs |-> f, threw |-> FALSE, at |-> 0]

\* A mutant of RemoveFiles: a missing file is passed over.
RECURSIVE RemoveFilesSkipMissing(_, _, _)
RemoveFilesSkipMissing(files, i, f) ==
    IF i > Len(files) THEN Done(f)
    ELSE LET p == files[i]
         IN  IF ~ExistsSync(f, p) THEN RemoveFilesSkipMissing(files, i + 1, f)
             ELSE IF ~IsFile(f, p) THEN Thrown(f, i)
             ELSE RemoveFilesSkipMissing(files, i + 1, UnlinkSync(f, p))

\* The loop of remove, from entry i on.
RECURSIVE RemoveFiles(_, _, _)
RemoveFiles(files, i, f) ==
    IF i > Len(files) THEN Done(f)
    ELSE LET p  == files[i]
             f2 == UnlinkSync(f, p)
         IN  IF ~ExistsSync(f, p) THEN Thrown(f, i)
             ELSE IF ~IsFile(f, p) THEN Thrown(f, i)
             ELSE IF ExistsSync(f2, p) THEN Thrown(f2, i)
             ELSE RemoveFiles(files, i + 1, f2)

\* `f.data || ''`
DataOrEmpty(data) == IF data = NoData THEN "" ELSE data

\* The loop of add, from entry i on.
RECURSIVE AddFiles(_, _, _)
AddFiles(files, i, f) ==
    IF i > Len(files) THEN Done(f)
    ELSE LET p  == files[i].path
             f2 == WriteFileSync(f, p, DataOrEmpty(files[i].data))
         IN  IF ExistsSync(f, p) THEN Thrown(f, i)
             ELSE IF ~ExistsSync(f2, p) THEN Thrown(f2, i)
             ELSE AddFiles(files, i + 1, f2)

\* The loop of modify, from entry i on.
RECURSIVE ModifyFiles(_, _, _)
ModifyFiles(files, i, f) ==
    IF i > Len(files) THEN Done(f)
    ELSE LET p  == files[i].path
             f2 == WriteFileSync(f, p, files[i].data)
         IN  IF ~ExistsSync(f, p) THEN Thrown(f, i)
             ELSE IF ~IsFile(f, p) THEN Thrown(f, i)
             ELSE IF ~ExistsSync(f2, p) \/ f2[p].data # files[i].data THEN Thrown(f2, i)
             ELSE ModifyFiles(files, i + 1, f2)

\* The loop of rename, from entry i on.
RECURSIVE RenameFiles(_, _, _)
RenameFiles(files, i, f) ==
    IF i > Len(files) THEN Done(f)
    ELSE LET old == files[i].oldPath
             new == files[i].newPath
             f2  == RenameSync(f, old, new)
         IN  IF ~ExistsSync(f, old) THEN Thrown(f, i)
             ELSE IF ExistsSync(f, new) THEN Thrown(f, i)
             ELSE IF ~IsFile(f, old) THEN Thrown(f, i)
             ELSE IF ~ExistsSync(f2, new) \/ ExistsSync(f2, old) THEN Thrown(f2, i)
             ELSE RenameFiles(files, i + 1, f2)

RepositoryPath == "/repo"

\* path.join(repositoryPath, f)
Join(p) == <<RepositoryPath, p>>

\* A call ends: the file system it leaves, and the list returned or the throw.
Finish(r, ret) ==
    /\ fs' = r.fs
    /\ fhResult' = IF r.threw THEN "threw" ELSE "returned"
    /\ fhFailedAt' = r.at
    /\ fhRet' = IF r.threw THEN <<>> ELSE ret
    /\ UNCHANGED <<fs0, fhOp, fhFiles>>
    /\ UNCHANGED <<parserVars, checkoutVars, initVars>>

Remove ==
    /\ fhResult = "pending"
    /\ fhOp = "remove"
    /\ Finish(RemoveFiles(fhFiles, 1, fs),
              [i \in 1..Len(fhFiles) |-> Join(fhFiles[i])])

Add ==
    /\ fhResult = "pending"
    /\ fhOp = "add"
    /\ Finish(AddFiles(fhFiles, 1, fs),
              [i \in 1..Len(fhFiles) |-> Join(fhFiles[i].path)])

Modify ==
    /\ fhResult = "pending"
    /\ fhOp = "modify"
    /\ Finish(ModifyFiles(fhFiles, 1, fs),
              [i \in 1..Len(fhFiles) |-> Join(fhFiles[i].path)])

Rename ==
    /\ fhResult = "pending"
    /\ fhOp = "rename"
    /\ Finish(RenameFiles(fhFiles, 1, fs),
              [i \in 1..Len(fhFiles) |-> Join(fhFiles[i].oldPath)]
              \o [i \in 1..Len(fhFiles) |-> Join(fhFiles[i].newPath)])

NextFiles == Remove \/ Add \/ Modify \/ Rename

MaxList == 2

ListsOf(S) == UNION {[1..n -> S] : n \in 1..MaxList}

RemoveEntries == FilePaths

AddEntries == [path : FilePaths, data : {NoData, "x"}]

ModifyEntries == [path : FilePaths, data : {"x", "y"}]

RenameEntries == [oldPath : FilePaths, newPath : FilePaths]

\* Any of A.txt, B.txt and folder may be there, as createTestRepository
\* leaves them, or missing.
StartFs ==
    { [p \in FilePaths |->
          IF p \notin present THEN Absent
          ELSE IF p = "folder" THEN Directory
          ELSE File(IF p = "A.txt" THEN "A" ELSE "B")] :
      present \in SUBSET FilePaths }

InitFiles ==
    /\ fs \in StartFs
    /\ fs0 = fs
    /\ \/ fhOp = "remove" /\ fhFiles \in ListsOf(RemoveEntries)
       \/ fhOp = "add" /\ fhFiles \in ListsOf(AddEntries)
       \/ fhOp = "modify" /\ fhFiles \in ListsOf(ModifyEntries)
       \/ fhOp = "rename" /\ fhFiles \in ListsOf(RenameEntries)
    /\ fhResult = "pending"
    /\ fhFailedAt = 0
    /\ fhRet = <<>>
    /\ ParserInert
    /\ CheckoutInert
    /\ InitRepoInert

SpecFiles == InitFiles /\ [][NextFiles]_vars

----------------------------------------------------------------------------
(* Properties of the parser *)

\* The complete lines of a text, in order.
RECURSIVE LinesOf(_)
LinesOf(text) ==
    LET nl == IndexOf(text, 1, NL)
    IN  IF nl > Len(text) THEN <<>>
        ELSE <<SubSeq(text, 1, nl - 1)>> \o LinesOf(SubSeq(text, nl + 1, Len(text)))

\* What follows the last line break of a text.
RECURSIVE TailOf(_)
TailOf(text) ==
    LET nl == IndexOf(text, 1, NL)
    IN  IF nl > Len(text) THEN text ELSE TailOf(SubSeq(text, nl + 1, Len(text)))

EndsInBreak(text) == text # <<>> /\ text[Len(text)] = NL

FirstChunk == SubSeq(pText, 1, pSplit)

\* C3: a text that ends in a line break gives the same records fed as one
\* chunk and fed as two chunks split at any offset; after the first chunk the
\* buffer holds exactly the incomplete trailing line, which has given no
\* record: the records so far are no more than the line breaks received.
ChunkSplitInvariance ==
    /\ (pStage = "both" /\ EndsInBreak(pText)) => pTwice = pWhole
    /\ pStage \in {"first", "both"} =>
          /\ pBuf = TailOf(FirstChunk)
          /\ Len(pFirst) <= Len(LinesOf(FirstChunk))
          /\ (LinesOf(FirstChunk) = <<>> => pFirst = <<>> /\ pBuf = FirstChunk)

\* A line split in its middle: nothing after the first chunk, the record
\* after the second.
ChunkSplitWitness ==
    /\ pStage = "both"
    /\ EndsInBreak(pText)
    /\ pSplit > 0
    /\ pSplit < Len(pText)
    /\ pFirst = <<>>
    /\ pBuf # <<>>
    /\ Len(pTwice) = 1
    /\ pTwice[1].kind = "progress"

ZeroTotal(line) ==
    LET m == MatchLine(line) IN m.ok /\ m.hasPair /\ m.total = 0

\* C4: every complete line that matches the pattern with a total of 0 gives
\* a Progress record (it is not skipped) whose percent is 0, and no record
\* carries the undefined quotient.
ZeroTotalIsZeroPercent ==
    pStage # "init" =>
        /\ \A i \in 1..Len(LinesOf(pText)) :
              ZeroTotal(LinesOf(pText)[i]) =>
                  \E j \in 1..Len(pWhole) :
                      /\ pWhole[j].kind = "progress"
                      /\ pWhole[j].details.text = LinesOf(pText)[i]
                      /\ pWhole[j].percent = Zero
        /\ \A j \in 1..Len(pWhole) :
              /\ pWhole[j].percent # NaN
              /\ ZeroTotal(pWhole[j].details.text) => pWhole[j].percent = Zero

ZeroTotalWitness ==
    /\ pStage = "whole"
    /\ \E j \in 1..Len(pWhole) :
          /\ ZeroTotal(pWhole[j].details.text)
          /\ MatchLine(pWhole[j].details.text).count > 0
          /\ pWhole[j].kind = "progress"

----------------------------------------------------------------------------
(* Properties of checkoutBranch *)

\* The callback has raised: its failOn-th invocation has happened.
CbFailed(op) == failOn[op] \in 1..Len(Events(op))

Phase(op) ==
    IF gitStatus[op] = "notIssued" THEN "NotStarted"
    ELSE IF gitStatus[op] = "running" THEN "Running"
    ELSE "Finished"

\* The records of the lines the process wrote so far, parsed line by line;
\* the trailing partial line counts once the stream is closed.
OwnRecords(op) ==
    LET ls   == LinesOf(consumed[op])
        tl   == TailOf(consumed[op])
        all  == IF gitStatus[op] = "exited" /\ tl # <<>> THEN Append(ls, tl) ELSE ls
        recs == [i \in 1..Len(all) |-> ParseLine(all[i], policy)]
    IN  recs

RECURSIVE Flatten(_)
Flatten(ss) == IF ss = <<>> THEN <<>> ELSE Head(ss) \o Flatten(Tail(ss))

IsProgress(r) == r.kind = "progress"

ExpectedEvents(op) ==
    LET recs == SelectSeq(Flatten(OwnRecords(op)), IsProgress)
    IN  <<[kind |-> "checkout", title |-> <<"Checking out branch ", name[op]>>,
           description |-> NoDescription, value |-> Ratio(0, 1),
           targetBranch |-> name[op]]>>
        \o [i \in 1..Len(recs) |->
              [kind |-> "checkout", title |-> <<"Checking out branch ", name[op]>>,
               description |-> recs[i].details.text, value |-> recs[i].percent,
               targetBranch |-> name[op]]]

\* C1: with a callback, the first thing an operation does is to invoke it
\* with value 0, kind 'checkout' and no description; the process is spawned
\* only after that, so no stream-derived event comes first.
FirstCallbackIsInitialZero ==
    \A op \in active :
        hasCb[op] =>
            /\ gitStatus[op] # "notIssued" => log[op] # <<>>
            /\ log[op] # <<>> =>
                  /\ log[op][1].type = "callback"
                  /\ log[op][1].event.value = Ratio(0, 1)
                  /\ log[op][1].event.kind = "checkout"
                  /\ log[op][1].event.description = NoDescription

FirstCallbackWitness ==
    /\ hasCb[1]
    /\ gitStatus[1] = "exited"
    /\ Len(Events(1)) >= 3
    /\ Len(log[1]) >= 4
    /\ log[1][2].type = "spawn"

\* C2: as long as the callback has not raised, it was invoked once with the
\* initial 0 event and then once per Progress record of the lines received,
\* in their order, with the record's text and percent; other lines give
\* nothing.
CallbackOncePerProgressRecord ==
    \A op \in active :
        (hasCb[op] /\ gitStatus[op] # "notIssued" /\ ~CbFailed(op)) =>
            Events(op) = ExpectedEvents(op)

\* The lines 1/10 and 10/10 give the values 0, 0.1, 1.0.
CallbackScenarioWitness ==
    /\ hasCb[1]
    /\ pc[1] = "resolved"
    /\ consumed[1] = LineTen \o <<NL>> \o LineFull \o <<NL>>
    /\ Len(Events(1)) = 3
    /\ Events(1)[1].value = Ratio(0, 1)
    /\ Events(1)[2].value = Ratio(1, 10)
    /\ Events(1)[3].value = Ratio(1, 1)

\* C5: NotStarted -> Running -> Finished. Nothing returns to NotStarted,
\* NotStarted is left only for Running, events after the first are delivered
\* only from Running, and Finished is left by nothing and delivers nothing.
ProgressStateMachine ==
    [][\A op \in Ops :
        /\ Phase(op)' = "NotStarted" => Phase(op) = "NotStarted"
        /\ Phase(op) = "NotStarted" => Phase(op)' \in {"NotStarted", "Running"}
        /\ (Len(Events(op)') > Len(Events(op)) /\ Len(Events(op)) >= 1) =>
              Phase(op) = "Running"
        /\ Phase(op) = "Finished" =>
              /\ Phase(op)' = "Finished"
              /\ Events(op)' = Events(op)]_vars

\* Finished after a failed git run, with stream-derived events delivered.
StateMachineWitness ==
    /\ Phase(1) = "Finished"
    /\ exitCode[1] = 1
    /\ pc[1] = "rejected"
    /\ Len(Events(1)) >= 2

\* C6: once the callback has raised, the operation delivers no further
\* event, the failure has reached the caller, and git is left alone: it ends
\* only after writing all its output, with its own exit code.
CallbackFailureEndsReporting ==
    /\ [][\A op \in Ops : CbFailed(op) => Events(op)' = Events(op)]_vars
    /\ [](\A op \in active :
            /\ CbFailed(op) => surfaced[op]
            /\ gitStatus[op] = "exited" =>
                  exitCode[op] = procExit[op] /\ out[op] = <<>>)

\* The callback raised on a stream-derived event while git went on to
\* succeed, with a later Progress line left unreported.
CallbackFailureWitness ==
    /\ failOn[1] = 2
    /\ CbFailed(1)
    /\ Len(Events(1)) = 2
    /\ Len(ExpectedEvents(1)) = 3
    /\ gitStatus[1] = "exited"
    /\ exitCode[1] = 0

\* C7: every event of an operation carries the operation's own branch name
\* and title, every stream-derived event is the Progress record of a line of
\* the operation's own output, and the operation's own buffer holds the
\* incomplete tail of its own output.
OwnParserAndBranch ==
    \A op \in active :
        /\ \A i \in 1..Len(Events(op)) :
              /\ Events(op)[i].targetBranch = name[op]
              /\ Events(op)[i].title = <<"Checking out branch ", name[op]>>
              /\ i > 1 => \E j \in 1..Len(ExpectedEvents(op)) :
                              j > 1 /\ ExpectedEvents(op)[j] = Events(op)[i]
        /\ (attached[op] /\ ~stopped[op] /\ gitStatus[op] = "running") =>
              parserBuf[op] = TailOf(consumed[op])

\* Two operations on different branches with different outputs, both
\* reporting, one of them holding a partial line.
OwnParserWitness ==
    /\ name[1] # name[2]
    /\ out[1] = <<>>
    /\ consumed[1] # consumed[2]
    /\ Len(Events(1)) = 2
    /\ Len(Events(2)) = 2
    /\ gitStatus[2] = "running"
    /\ parserBuf[2] # <<>>
    /\ parserBuf[1] = <<>>

\* C8: git gets '--progress' and a process callback exactly when a progress
\* callback was passed; without one no event is ever emitted.
ProgressFlagIffCallback ==
    \A op \in active :
        /\ gitStatus[op] # "notIssued" =>
              /\ attached[op] = hasCb[op]
              /\ hasCb[op] => args[op] = <<"checkout", "--progress", name[op], "--">>
              /\ ~hasCb[op] => args[op] = <<"checkout", name[op], "--">>
        /\ ~hasCb[op] => Events(op) = <<>>

ProgressFlagWitness ==
    /\ ~hasCb[1]
    /\ gitStatus[1] = "exited"
    /\ consumed[1] # <<>>
    /\ args[1] = <<"checkout", name[1], "--">>

----------------------------------------------------------------------------
(* Properties of initRepository *)

\* C9: when initRepository is called with commit = true and returns, the
\* git steps it ran are init, user.email, user.name and last the commit, and
\* it returns the path.
CommitTrueCommits ==
    (irPc = "returned" /\ irCommit = "true") =>
        /\ Len(irRan) >= 4
        /\ irRan[1].step = "init"
        /\ irRan[2].step = "email"
        /\ irRan[3].step = "name"
        /\ irRan[Len(irRan)].step = "commit"
        /\ irResult = irPath

----------------------------------------------------------------------------
(* Properties of the file helpers *)

\* Whether the helper accepts entry e on file system f.
Accepts(op, e, f) ==
    IF op = "remove" THEN f[e].kind = "file"
    ELSE IF op = "add" THEN f[e.path].kind = "none"
    ELSE IF op = "modify" THEN f[e.path].kind = "file"
    ELSE f[e.oldPath].kind = "file" /\ f[e.newPath].kind = "none"

\* What an accepted entry does to file system f.
Effect(op, e, f) ==
    IF op = "remove" THEN [f EXCEPT ![e] = [kind |-> "none", data |-> ""]]
    ELSE IF op = "add"
         THEN [f EXCEPT ![e.path] =
                  [kind |-> "file", data |-> IF e.data = NoData THEN "" ELSE e.data]]
    ELSE IF op = "modify"
         THEN [f EXCEPT ![e.path] = [kind |-> "file", data |-> e.data]]
    ELSE [p \in DOMAIN f |->
             IF p = e.oldPath THEN [kind |-> "none", data |-> ""]
             ELSE IF p = e.newPath THEN f[e.oldPath]
             ELSE f[p]]

\* The file system after the first n entries, each applied in list order.
RECURSIVE AfterEntries(_, _, _, _)
AfterEntries(op, files, n, f) ==
    IF n = 0 THEN f
    ELSE Effect(op, files[n], AfterEntries(op, files, n - 1, f))

\* C10: a call that throws threw at the first entry, in list order, that the
\* helper does not accept on the file system the entries before it left; the
\* file system is then the one those earlier entries left: their effects
\* stay, the failing entry and the later ones changed nothing. A call that
\* returns applied every entry.
HelperStopsAtFirstFailure ==
    /\ fhResult = "threw" =>
          /\ fhFailedAt \in 1..Len(fhFiles)
          /\ \A j \in 1..(fhFailedAt - 1) :
                Accepts(fhOp, fhFiles[j], AfterEntries(fhOp, fhFiles, j - 1, fs0))
          /\ ~Accepts(fhOp, fhFiles[fhFailedAt],
                      AfterEntries(fhOp, fhFiles, fhFailedAt - 1, fs0))
          /\ fs = AfterEntries(fhOp, fhFiles, fhFailedAt - 1, fs0)
    /\ fhResult = "returned" /\ fhOp # "" =>
          /\ \A j \in 1..Len(fhFiles) :
                Accepts(fhOp, fhFiles[j], AfterEntries(fhOp, fhFiles, j - 1, fs0))
          /\ fs = AfterEntries(fhOp, fhFiles, Len(fhFiles), fs0)

\* A call that threw at its second entry after the first one took effect.
HelperPartialWitness ==
    /\ fhResult = "threw"
    /\ fhFailedAt = 2
    /\ fs # fs0
    /\ fhOp = "rename"

====
